---------------------------- MODULE Spec2Model ----------------------------
(***************************************************************************)
(* Model of the dueling-bandit policies of ind_acb:                        *)
(*   - RUCB (alg.py): win matrix W, champion memory B, the operations      *)
(*     choose_action_set, record_action, predict_winner,                   *)
(*     will_definitely_self_duel, reset;                                   *)
(*   - HumanUCB and HumanThompsonSampling (human.py).                      *)
(*                                                                         *)
(* Floating point values (U, win rates, UCB values) are kept in fixed      *)
(* point, in units of 1/Scale.  For pair totals W[i][j]+W[j][i] <= 8 and   *)
(* times <= 8 the fixed point values order exactly as the IEEE doubles of  *)
(* the source do (equal values included), which is all the code reads of   *)
(* them.  Random draws are nondeterministic choices.                       *)
(***************************************************************************)
EXTENDS Integers, Sequences, FiniteSets, TLC

VARIABLES
    W,                \* RUCB.W: WNone, or the N x N matrix (rows of cells)
    B,                \* RUCB.B: champion memory, a set of arms
    action_to_count,  \* HumanUCB.action_to_count: dict arm -> count
    action_to_mean,   \* HumanUCB.action_to_mean: dict arm -> mean, in 1/MeanDen
    alpha0, beta0,    \* HumanThompsonSampling priors
    alpha, beta,      \* HumanThompsonSampling posterior
    A_t,              \* the simulation's pair awaiting its duel, or NoRet
    call,             \* the last call: [op |-> name, args |-> its arguments]
    ret,              \* what the last call returned, as a tuple: the list
                      \* itself, <<v>> for a number or boolean v, NoRet for
                      \* None and for a call that raised
    err               \* the exception the last call raised, or NoErr

vars == <<W, B, action_to_count, action_to_mean, alpha0, beta0, alpha, beta,
          A_t, call, ret, err>>

rucbVars  == <<W, B>>
ucbVars   == <<action_to_count, action_to_mean>>
tsVars    == <<alpha0, beta0, alpha, beta>>

-----------------------------------------------------------------------------
(* Bounds of the model *)

\* largest number of arms of a universe
MaxN == 3
\* cap on the recorded history: (number of arms) * (duels recorded in W)
\* stays <= MaxLoad, i.e. up to 3 duels on 3 arms, 5 on 2 arms
MaxLoad == 11
\* largest time passed to an operation (times are 1..MaxTime)
MaxTime == 2
\* largest number of rewards recorded by a human policy
MaxRewards == 3

-----------------------------------------------------------------------------
(* Values *)

\* self.W = None
WNone == <<>>
\* a call returned None, or raised
NoRet == <<>>
NoErr == "none"

\* the unit of the fixed point values: 1.0 is Scale
Scale == 6000
Half == Scale \div 2
\* RUCB.alpha, the exploration constant
RUCB_alpha == 1

\* floor(Scale * math.log(t)) for t = 1..8
LnTable == <<0, 4158, 6591, 8317, 9656, 10750, 11675, 12476>>
Log(t) == LnTable[t]

RECURSIVE SqrtSearch(_, _, _)
SqrtSearch(x, lo, hi) ==
    IF lo >= hi THEN lo
    ELSE LET mid == (lo + hi + 1) \div 2
         IN IF mid * mid <= x THEN SqrtSearch(x, mid, hi)
            ELSE SqrtSearch(x, lo, mid - 1)
\* floor(sqrt(x)) of a natural number
ISqrt(x) == SqrtSearch(x, 0, 4 * Scale)

Arms(n) == 0 .. (n - 1)
\* the list [0, 1, .., n-1]
Universe(n) == [k \in 1 .. n |-> k - 1]
Elems(list) == {list[k] : k \in 1 .. Len(list)}

\* W[i, j] of a matrix M (arms count from 0)
Cell(M, i, j) == M[i + 1][j + 1]
\* np.zeros((n, n), dtype=int)
Zeros(n) == [i \in 1 .. n |-> [j \in 1 .. n |-> 0]]

RECURSIVE SumSeq(_)
SumSeq(s) == IF s = <<>> THEN 0 ELSE Head(s) + SumSeq(Tail(s))
\* the number of duels recorded in M
Total(M) == SumSeq([i \in 1 .. Len(M) |-> SumSeq(M[i])])

Outcome(w, b, r, e) == [W |-> w, B |-> b, ret |-> r, err |-> e]

-----------------------------------------------------------------------------
(* RUCB._get_U_and_C *)

\* RawKind with the 0/0 of the ratio filled in before the root is added
RawKind_RatioFilled(w, s, time) ==
    IF s # 0 THEN "fin"
    ELSE IF RUCB_alpha * Log(time) = 0 THEN "nan" ELSE "inf"

\* how W / (W + W.T) + sqrt(alpha * log(time) / (W + W.T)) comes out in one
\* cell with W[i, j] = w and (W + W.T)[i, j] = s: "nan", "inf" or "fin"
RawKind(w, s, time) ==
    LET ratio == IF s # 0 THEN "fin" ELSE IF w = 0 THEN "nan" ELSE "inf"
        root  == IF s # 0 THEN "fin"
                 ELSE IF RUCB_alpha * Log(time) = 0 THEN "nan" ELSE "inf"
    IN IF "nan" \in {ratio, root} THEN "nan"
       ELSE IF "inf" \in {ratio, root} THEN "inf"
       ELSE "fin"

\* sqrt(alpha * log(time) / s) in 1/Scale, for every time and pair total
\* the model reaches
RootTable ==
    [time \in 1 .. MaxTime |->
        [s \in 1 .. MaxLoad |->
            ISqrt((Scale * RUCB_alpha * Log(time)) \div s)]]

\* the finite value of that cell, in 1/Scale
RawValue(w, s, time) == (Scale * w) \div s + RootTable[time][s]

\* U[i, j] after nan_to_num(nan=1.0) and the fill of the diagonal
UCell(M, time, i, j) ==
    LET w == Cell(M, i, j)
        s == Cell(M, i, j) + Cell(M, j, i)
    IN IF i = j THEN Half
       ELSE IF RawKind(w, s, time) = "nan" THEN Scale
       ELSE RawValue(w, s, time)

\* assert not np.any(np.isinf(U))
NoInf(M, time) ==
    \A i, j \in Arms(Len(M)) :
        RawKind(Cell(M, i, j), Cell(M, i, j) + Cell(M, j, i), time) # "inf"

\* the rows of U that are >= 0.5 everywhere, among the indices of all_actions
CSet(U, n, all_actions) ==
    {i \in Arms(Len(all_actions)) : \A j \in Arms(n) : U[i][j] >= Half}

\* _get_U_and_C(time, all_actions) on the matrix M: [err, U, C]
GetUAndC(M, time, all_actions) ==
    IF M = WNone
    THEN [err |-> "AttributeError", U |-> <<>>, C |-> {}]
    ELSE IF ~NoInf(M, time)
    THEN [err |-> "AssertionError", U |-> <<>>, C |-> {}]
    ELSE LET n == Len(M)
             U == [i \in Arms(n) |-> [j \in Arms(n) |-> UCell(M, time, i, j)]]
         IN IF Len(all_actions) > n
            THEN [err |-> "IndexError", U |-> U, C |-> {}]
            ELSE [err |-> NoErr, U |-> U, C |-> CSet(U, n, all_actions)]

-----------------------------------------------------------------------------
(* RUCB.choose_action_set *)

\* Challengers leaving the champion among the tied challengers
Challengers_KeepAC(U, n, a_c) ==
    LET max_u == CHOOSE m \in {U[j][a_c] : j \in Arms(n)} :
                     \A j \in Arms(n) : U[j][a_c] <= m
    IN {j \in Arms(n) : U[j][a_c] >= max_u}

\* lines 100-107: the pairs [a_c, d] the champion a_c can come out with
Challengers(U, n, a_c) ==
    LET max_u == CHOOSE m \in {U[j][a_c] : j \in Arms(n)} :
                     \A j \in Arms(n) : U[j][a_c] <= m
        d_all == {j \in Arms(n) : U[j][a_c] >= max_u}
    IN IF Cardinality(d_all) > 1 THEN d_all \ {a_c} ELSE d_all

\* lines 100-107 for the champion a_c, with W and B as they are by then
PickD(M, Bs, U, a_c) ==
    IF a_c \notin Arms(Len(M))
    THEN {Outcome(M, Bs, NoRet, "IndexError")}
    ELSE IF Challengers(U, Len(M), a_c) = {}
    THEN {Outcome(M, Bs, NoRet, "IndexError")}
    ELSE {Outcome(M, Bs, <<a_c, d>>, NoErr) : d \in Challengers(U, Len(M), a_c)}

\* PickAC taking the first candidate instead of drawing one
PickAC_First(Bs, C) ==
    LET a == CHOOSE x \in C : \A y \in C : x <= y
    IN {[a_c |-> a, B |-> IF Cardinality(C) = 1 THEN C ELSE Bs \cap C,
         err |-> NoErr]}

\* PickAC never storing a single candidate as the champion memory
PickAC_NoStore(Bs, C) ==
    LET B1 == Bs \cap C
    IN IF Cardinality(C) = 1
       THEN {[a_c |-> a, B |-> B1, err |-> NoErr] : a \in C}
       ELSE {[a_c |-> a, B |-> B1, err |-> NoErr] : a \in B1}
            \cup (IF C \ B1 = {}
                  THEN {[a_c |-> 0, B |-> B1, err |-> "IndexError"]}
                  ELSE {[a_c |-> a, B |-> B1, err |-> NoErr] : a \in C \ B1})

\* lines 86-98 for the candidate set C: the champions and the B each leaves
PickAC(Bs, C) ==
    LET B1 == Bs \cap C
    IN IF Cardinality(C) = 1
       THEN {[a_c |-> a, B |-> C, err |-> NoErr] : a \in C}
       ELSE {[a_c |-> a, B |-> B1, err |-> NoErr] : a \in B1}
            \cup (IF C \ B1 = {}
                  THEN {[a_c |-> 0, B |-> B1, err |-> "IndexError"]}
                  ELSE {[a_c |-> a, B |-> B1, err |-> NoErr] : a \in C \ B1})

\* lines 83-84: C, or a set of one action drawn from all_actions
FillC(C, all_actions) ==
    IF C = {} THEN {{a} : a \in Elems(all_actions)} ELSE {C}

\* choose_action_set(time, all_actions) with self.W = M, self.B = Bs:
\* the set of its possible outcomes
ChooseActionSet(M, Bs, time, all_actions) ==
    LET W1 == IF M = WNone THEN Zeros(Len(all_actions)) ELSE M
        uc == GetUAndC(W1, time, all_actions)
    IN IF uc.err # NoErr
       THEN {Outcome(W1, Bs, NoRet, uc.err)}
       ELSE UNION {
              UNION {
                IF p.err # NoErr
                THEN {Outcome(W1, p.B, NoRet, p.err)}
                ELSE PickD(W1, p.B, uc.U, p.a_c)
                : p \in PickAC(Bs, C)}
              : C \in FillC(uc.C, all_actions)}

-----------------------------------------------------------------------------
(* RUCB.record_action *)

\* Incremented with winner and loser exchanged
Incremented_Swapped(M, i, j) ==
    [M EXCEPT ![j + 1] = [@ EXCEPT ![i + 1] = @ + 1]]

\* M with cell [i, j] one larger
Incremented(M, i, j) ==
    [M EXCEPT ![i + 1] = [@ EXCEPT ![j + 1] = @ + 1]]

\* RecordBody without the move to the second element
RecordBody_FirstOnly(M, Bs, available_actions, chosen_action) ==
    IF Len(available_actions) = 0
    THEN Outcome(M, Bs, NoRet, "IndexError")
    ELSE IF M = WNone
    THEN Outcome(M, Bs, NoRet, "TypeError")
    ELSE IF {chosen_action, available_actions[1]} \subseteq Arms(Len(M))
    THEN Outcome([M EXCEPT ![chosen_action + 1] =
                      [@ EXCEPT ![available_actions[1] + 1] = @ + 1]],
                 Bs, NoRet, NoErr)
    ELSE Outcome(M, Bs, NoRet, "IndexError")

\* lines 115-118
RecordBody(M, Bs, available_actions, chosen_action) ==
    IF Len(available_actions) = 0
    THEN Outcome(M, Bs, NoRet, "IndexError")
    ELSE IF available_actions[1] = chosen_action /\ Len(available_actions) < 2
    THEN Outcome(M, Bs, NoRet, "IndexError")
    ELSE LET not_chosen_action ==
                 IF available_actions[1] = chosen_action
                 THEN available_actions[2]
                 ELSE available_actions[1]
         IN IF M = WNone
            THEN Outcome(M, Bs, NoRet, "TypeError")
            ELSE IF {chosen_action, not_chosen_action} \subseteq Arms(Len(M))
            THEN Outcome(Incremented(M, chosen_action, not_chosen_action),
                         Bs, NoRet, NoErr)
            ELSE Outcome(M, Bs, NoRet, "IndexError")

\* RecordAction without its assertion
RecordAction_NoAssert(M, Bs, available_actions, chosen_action) ==
    RecordBody(M, Bs, available_actions, chosen_action)

\* record_action(time, available_actions, chosen_action); time is not read
RecordAction(M, Bs, available_actions, chosen_action) ==
    IF Len(available_actions) # 2
    THEN Outcome(M, Bs, NoRet, "AssertionError")
    ELSE RecordBody(M, Bs, available_actions, chosen_action)

-----------------------------------------------------------------------------
(* RUCB.predict_winner *)

\* WinRate of the transposed matrix: the rate at which i loses to j
WinRate_Transposed(M, i, j) ==
    LET s == Cell(M, i, j) + Cell(M, j, i)
    IN IF s = 0 THEN Half ELSE (Scale * Cell(M, j, i)) \div s

\* pred_win_rates[i, j] after nan_to_num(nan=0.5), in 1/Scale
WinRate(M, i, j) ==
    LET s == Cell(M, i, j) + Cell(M, j, i)
    IN IF s = 0 THEN Half ELSE (Scale * Cell(M, i, j)) \div s

\* num_arms_beaten[i]
NumArmsBeaten(M, i) ==
    Cardinality({j \in Arms(Len(M)) : WinRate(M, i, j) > Half})

\* sorted(action_set) == list(range(len(action_set)))
IsRange(action_set) ==
    /\ Elems(action_set) = Arms(Len(action_set))
    /\ \A k, l \in 1 .. Len(action_set) :
           k # l => action_set[k] # action_set[l]

\* PredictBody without the tie handling: np.argmax alone
PredictBody_NoTie(M) ==
    <<CHOOSE i \in Arms(Len(M)) :
          /\ \A j \in Arms(Len(M)) : NumArmsBeaten(M, j) <= NumArmsBeaten(M, i)
          /\ \A j \in Arms(Len(M)) :
                 j < i => NumArmsBeaten(M, j) < NumArmsBeaten(M, i)>>

\* lines 124-138
PredictBody(M) ==
    LET n == Len(M)
        max_beaten == CHOOSE m \in {NumArmsBeaten(M, i) : i \in Arms(n)} :
                          \A i \in Arms(n) : NumArmsBeaten(M, i) <= m
        counter == Cardinality({i \in Arms(n) : NumArmsBeaten(M, i) = max_beaten})
    IN IF counter > 1 THEN NoRet
       ELSE <<CHOOSE i \in Arms(n) : NumArmsBeaten(M, i) = max_beaten>>

\* predict_winner(action_set)
PredictWinner(M, Bs, action_set) ==
    IF ~IsRange(action_set)
    THEN Outcome(M, Bs, NoRet, "AssertionError")
    ELSE IF M = WNone
    THEN Outcome(M, Bs, NoRet, "TypeError")
    ELSE IF Len(action_set) # Len(M)
    THEN Outcome(M, Bs, NoRet, "AssertionError")
    ELSE Outcome(M, Bs, PredictBody(M), NoErr)

-----------------------------------------------------------------------------
(* RUCB.will_definitely_self_duel *)

\* Rivalled asking for a strictly larger bound
Rivalled_Strict(U, C, c) == \E j \in C \ {c} : U[c][c] < U[c][j]

\* line 72: some other candidate j has U[c, c] <= U[c, j]
Rivalled(U, C, c) == \E j \in C \ {c} : U[c][c] <= U[c][j]

\* WillDefinitelySelfDuel dropping from the champion memory what is no
\* candidate, as choose_action_set does
WillDefinitelySelfDuel_StoreB(M, Bs, time, all_actions) ==
    LET uc == GetUAndC(M, time, all_actions)
        C  == (IF uc.C = {} THEN Elems(all_actions) ELSE uc.C)
                  \cap Arms(Len(M))
    IN IF uc.err # NoErr
       THEN {Outcome(M, Bs, NoRet, uc.err)}
       ELSE {Outcome(M, Bs \cap uc.C,
                     <<~(\E c \in C : Rivalled(uc.U, C, c))>>, NoErr)}

\* will_definitely_self_duel(time, all_actions): the set of its outcomes
\* (one outcome, unless a substituted candidate is no index of U: then the
\* order in which the set C is walked decides between False and IndexError)
WillDefinitelySelfDuel(M, Bs, time, all_actions) ==
    LET uc == GetUAndC(M, time, all_actions)
        C  == IF uc.C = {} THEN Elems(all_actions) ELSE uc.C
        in == C \cap Arms(Len(M))
    IN IF uc.err # NoErr
       THEN {Outcome(M, Bs, NoRet, uc.err)}
       ELSE IF C \subseteq Arms(Len(M))
       THEN {Outcome(M, Bs, <<~(\E c \in C : Rivalled(uc.U, C, c))>>, NoErr)}
       ELSE {Outcome(M, Bs, NoRet, "IndexError")}
            \cup {Outcome(M, Bs, <<FALSE>>, NoErr) :
                    c \in {x \in in : Rivalled(uc.U, in, x)}}

-----------------------------------------------------------------------------
(* RUCB.reset *)

\* Reset leaving the champion memory as it is
Reset_KeepB(M, Bs) == Outcome(WNone, Bs, NoRet, NoErr)

Reset(M, Bs) == Outcome(WNone, {}, NoRet, NoErr)

-----------------------------------------------------------------------------
(* Inputs of the RUCB operations *)

Times == 1 .. MaxTime

\* the number of arms the caller works with: any before W is sized
ArmCounts == IF W = WNone THEN 1 .. MaxN ELSE {Len(W)}

\* available_actions of the right length
Pairs(n) == {<<x, y>> : x \in Arms(n), y \in Arms(n)}

\* available_actions of length 0, 1 and 3
Malformed(n) ==
    {<<>>} \cup {<<x>> : x \in Arms(n)}
    \cup {l \in Arms(n) \X Arms(n) \X Arms(n) : l[1] < l[2] /\ l[2] < l[3]}

\* action_set values that are not the universe of n arms: a shorter range,
\* a longer one, a shifted list, a list of equal arms
NotUniverse(n) ==
    {Universe(k) : k \in {n - 1, n + 1} \ {0}}
    \cup {[k \in 1 .. n |-> k], [k \in 1 .. n + 1 |-> 0]}

\* W can take one more duel within the bound
RecordsLeft == W # WNone /\ Len(W) * (Total(W) + 1) <= MaxLoad

Apply(o) ==
    /\ W' = o.W
    /\ B' = o.B
    /\ ret' = o.ret
    /\ err' = o.err

Called(op, args) == call' = [op |-> op, args |-> args]

-----------------------------------------------------------------------------
(* The operations of RUCB as steps *)

InitRUCB ==
    /\ W = WNone
    /\ B = {}
    /\ action_to_count = <<>>
    /\ action_to_mean = <<>>
    /\ alpha0 = <<>>
    /\ beta0 = <<>>
    /\ alpha = <<>>
    /\ beta = <<>>
    /\ A_t = NoRet
    /\ call = [op |-> "__init__", args |-> <<>>]
    /\ ret = NoRet
    /\ err = NoErr

choose_action_set(time, all_actions) ==
    \E o \in ChooseActionSet(W, B, time, all_actions) :
        /\ Apply(o)
        /\ Called("choose_action_set", <<time, all_actions>>)
        /\ UNCHANGED <<ucbVars, tsVars>>

record_action(available_actions, chosen_action) ==
    LET o == RecordAction(W, B, available_actions, chosen_action)
    IN /\ o.W # W => RecordsLeft
       /\ Apply(o)
       /\ Called("record_action", <<available_actions, chosen_action>>)
       /\ UNCHANGED <<ucbVars, tsVars>>

predict_winner(action_set) ==
    /\ Apply(PredictWinner(W, B, action_set))
    /\ Called("predict_winner", <<action_set>>)
    /\ UNCHANGED <<ucbVars, tsVars>>

will_definitely_self_duel(time, all_actions) ==
    \E o \in WillDefinitelySelfDuel(W, B, time, all_actions) :
        /\ Apply(o)
        /\ Called("will_definitely_self_duel", <<time, all_actions>>)
        /\ UNCHANGED <<ucbVars, tsVars>>

reset ==
    /\ Apply(Reset(W, B))
    /\ Called("reset", <<>>)
    /\ UNCHANGED <<ucbVars, tsVars>>

-----------------------------------------------------------------------------
(* The simulation: the loop of alg_test.py (choose_action_set, then          *)
(* record_action of the returned pair with either arm as the winner), the   *)
(* two queries and reset at any point, and calls with malformed arguments   *)

LoopChoose ==
    /\ A_t = NoRet
    /\ \E time \in Times, n \in ArmCounts :
           choose_action_set(time, Universe(n))
    /\ A_t' = ret'

LoopRecord ==
    /\ A_t # NoRet
    /\ \E chosen_idx \in 1 .. 2 : record_action(A_t, A_t[chosen_idx])
    /\ A_t' = NoRet

QueryWinner ==
    /\ \E n \in ArmCounts : predict_winner(Universe(n))
    /\ UNCHANGED A_t

QuerySelfDuel ==
    /\ \E time \in Times, n \in ArmCounts :
           will_definitely_self_duel(time, Universe(n))
    /\ UNCHANGED A_t

LoopReset ==
    /\ reset
    /\ A_t' = NoRet

MalformedRecord ==
    /\ \E n \in ArmCounts :
           \E available_actions \in Malformed(n) :
               record_action(available_actions,
                             IF available_actions = <<>> THEN 0
                             ELSE available_actions[1])
    /\ UNCHANGED A_t

MalformedWinner ==
    /\ \E n \in ArmCounts :
           \E action_set \in NotUniverse(n) : predict_winner(action_set)
    /\ UNCHANGED A_t

Next ==
    \/ LoopChoose
    \/ LoopRecord
    \/ QueryWinner
    \/ QuerySelfDuel
    \/ LoopReset
    \/ MalformedRecord
    \/ MalformedWinner

Spec == InitRUCB /\ [][Next]_vars

-----------------------------------------------------------------------------
(* Any caller: choose_action_set and record_action in any order, the       *)
(* recorded pair any two arms of the universe                               *)

CallerChoose ==
    /\ \E time \in Times, n \in ArmCounts :
           choose_action_set(time, Universe(n))
    /\ UNCHANGED A_t

CallerRecord ==
    /\ \E n \in ArmCounts :
           \E available_actions \in Pairs(n) :
               \E chosen_action \in Elems(available_actions) :
                   record_action(available_actions, chosen_action)
    /\ UNCHANGED A_t

CallerReset ==
    /\ reset
    /\ UNCHANGED A_t

NextCaller ==
    \/ CallerChoose
    \/ CallerRecord
    \/ CallerReset

SpecCaller == InitRUCB /\ [][NextCaller]_vars

-----------------------------------------------------------------------------
(* choose_action_set on lists of distinct actions that are not 0..N-1 (the  *)
(* arms numbered from 1) as well as on those that are, W filled by any      *)
(* caller                                                                    *)

ActionLists ==
    {Universe(n) : n \in 1 .. MaxN} \cup {[k \in 1 .. n |-> k] : n \in 1 .. MaxN}

AnyChoose ==
    /\ \E time \in Times, all_actions \in ActionLists :
           choose_action_set(time, all_actions)
    /\ UNCHANGED A_t

NextAny ==
    \/ AnyChoose
    \/ CallerRecord
    \/ CallerReset

SpecAny == InitRUCB /\ [][NextAny]_vars

-----------------------------------------------------------------------------
(* HumanUCB *)

\* HumanUCB.ucb_constant, the default
ucb_constant == 1
\* math.inf, above every finite UCB value
Inf == 100 * Scale

\* dict.get(key, default)
Get(dict, key, default) == IF key \in DOMAIN dict THEN dict[key] ELSE default

\* dict[key] = value
Put(dict, key, value) ==
    [k \in DOMAIN dict \cup {key} |-> IF k = key THEN value ELSE dict[k]]

\* _get_ucb(time, action) in 1/Scale; inf plus a finite number is inf
GetUcb(means, counts, time, action) ==
    IF action \notin DOMAIN means THEN Inf
    ELSE means[action]
         + ucb_constant * ISqrt((Scale * Log(time)) \div Get(counts, action, 1))

\* np.argmax of a list: the first index of the largest value
ArgMax(values) ==
    CHOOSE k \in 1 .. Len(values) :
        /\ \A l \in 1 .. Len(values) : values[l] <= values[k]
        /\ \A l \in 1 .. k - 1 : values[l] < values[k]

\* HumanUCB.choose_action(time, available_actions)
UCBChooseAction(means, counts, time, available_actions) ==
    available_actions[
        ArgMax([k \in 1 .. Len(available_actions) |->
                   GetUcb(means, counts, time, available_actions[k])])]

\* HumanUCB.record_reward(time, action, reward), reward in 1/Scale:
\* [mean, count], the two dicts after the call
UCBRecordReward(means, counts, action, reward) ==
    LET old_count == Get(counts, action, 0)
    IN [mean  |-> Put(means, action,
                      (Get(means, action, 0) * old_count + reward)
                          \div (old_count + 1)),
        count |-> Put(counts, action, old_count + 1)]

\* HumanUCB.action_choice_prob(time, a1, a2) in 1/Scale
UCBActionChoiceProb(means, counts, time, a1, a2) ==
    LET ucb1 == GetUcb(means, counts, time, a1)
        ucb2 == GetUcb(means, counts, time, a2)
    IN IF ucb1 = ucb2 THEN Half
       ELSE IF ucb1 > ucb2 THEN Scale
       ELSE 0

\* the arms the human policies are asked about
HumanArms == Arms(MaxN)

\* the rewards recorded so far
RewardsSeen == SumSeq([k \in 1 .. MaxN |-> Get(action_to_count, k - 1, 0)])

InitUCB ==
    /\ W = WNone
    /\ B = {}
    /\ action_to_count = <<>>
    /\ action_to_mean = <<>>
    /\ alpha0 = <<>>
    /\ beta0 = <<>>
    /\ alpha = <<>>
    /\ beta = <<>>
    /\ A_t = NoRet
    /\ call = [op |-> "__init__", args |-> <<>>]
    /\ ret = NoRet
    /\ err = NoErr

Returned(op, args, r, e) ==
    /\ call' = [op |-> op, args |-> args]
    /\ ret' = r
    /\ err' = e

ucb_record_reward ==
    /\ RewardsSeen < MaxRewards
    /\ \E action \in HumanArms, reward \in {0, Scale} :
           LET new == UCBRecordReward(action_to_mean, action_to_count,
                                      action, reward)
           IN /\ action_to_mean' = new.mean
              /\ action_to_count' = new.count
              /\ Returned("record_reward", <<action, reward>>, NoRet, NoErr)
    /\ UNCHANGED <<rucbVars, tsVars, A_t>>

ucb_choose_action ==
    /\ \E time \in Times, a1 \in HumanArms, a2 \in HumanArms :
           Returned("choose_action", <<time, <<a1, a2>>>>,
                    <<UCBChooseAction(action_to_mean, action_to_count,
                                      time, <<a1, a2>>)>>,
                    NoErr)
    /\ UNCHANGED <<rucbVars, ucbVars, tsVars, A_t>>

ucb_action_choice_prob ==
    /\ \E time \in Times, a1 \in HumanArms, a2 \in HumanArms :
           Returned("action_choice_prob", <<time, a1, a2>>,
                    <<UCBActionChoiceProb(action_to_mean, action_to_count,
                                          time, a1, a2)>>,
                    NoErr)
    /\ UNCHANGED <<rucbVars, ucbVars, tsVars, A_t>>

ucb_reset ==
    /\ action_to_count' = <<>>
    /\ action_to_mean' = <<>>
    /\ Returned("reset", <<>>, NoRet, NoErr)
    /\ UNCHANGED <<rucbVars, tsVars, A_t>>

NextUCB ==
    \/ ucb_record_reward
    \/ ucb_choose_action
    \/ ucb_action_choice_prob
    \/ ucb_reset

SpecUCB == InitUCB /\ [][NextUCB]_vars

-----------------------------------------------------------------------------
(* HumanThompsonSampling *)

\* the priors the policy is constructed with: all ones, and the priors of
\* human_test.py ([1, 2, 3], [4, 5, 6]) cut or continued to n arms
Priors ==
    UNION {{[a |-> [k \in 1 .. n |-> 1], b |-> [k \in 1 .. n |-> 1]],
            [a |-> [k \in 1 .. n |-> k], b |-> [k \in 1 .. n |-> n + k]]}
           : n \in 1 .. MaxN}

\* TSRecordReward taking every reward that is not 1.0 as a failure
TSRecordReward_ElseBeta(al, be, action, reward) ==
    IF action \notin Arms(Len(al))
    THEN [alpha |-> al, beta |-> be, err |-> "IndexError"]
    ELSE IF reward = Scale
    THEN [alpha |-> [al EXCEPT ![action + 1] = @ + 1], beta |-> be,
          err |-> NoErr]
    ELSE [alpha |-> al, beta |-> [be EXCEPT ![action + 1] = @ + 1],
          err |-> NoErr]

\* HumanThompsonSampling.record_reward(time, action, reward), reward in
\* 1/Scale: [alpha, beta, err]
TSRecordReward(al, be, action, reward) ==
    IF reward = Scale
    THEN IF action \in Arms(Len(al))
         THEN [alpha |-> [al EXCEPT ![action + 1] = @ + 1], beta |-> be,
               err |-> NoErr]
         ELSE [alpha |-> al, beta |-> be, err |-> "IndexError"]
    ELSE IF reward = 0
    THEN IF action \in Arms(Len(be))
         THEN [alpha |-> al, beta |-> [be EXCEPT ![action + 1] = @ + 1],
               err |-> NoErr]
         ELSE [alpha |-> al, beta |-> be, err |-> "IndexError"]
    ELSE [alpha |-> al, beta |-> be, err |-> "ValueError"]

\* HumanThompsonSampling.choose_action(time, available_actions): one Beta
\* sample per arm, each able to be the largest
TSChooseAction(al, be, available_actions) == Elems(available_actions)

InitTS ==
    /\ W = WNone
    /\ B = {}
    /\ action_to_count = <<>>
    /\ action_to_mean = <<>>
    /\ \E p \in Priors :
           /\ alpha0 = p.a
           /\ beta0 = p.b
           /\ alpha = p.a
           /\ beta = p.b
    /\ A_t = NoRet
    /\ call = [op |-> "__init__", args |-> <<>>]
    /\ ret = NoRet
    /\ err = NoErr

\* the rewards in the posterior
Observed == (SumSeq(alpha) + SumSeq(beta)) - (SumSeq(alpha0) + SumSeq(beta0))

ts_record_reward ==
    /\ Observed < MaxRewards
    /\ \E action \in 0 .. Len(alpha), reward \in {0, Half, Scale, 2 * Scale} :
           LET new == TSRecordReward(alpha, beta, action, reward)
           IN /\ alpha' = new.alpha
              /\ beta' = new.beta
              /\ Returned("record_reward", <<action, reward>>, NoRet, new.err)
    /\ UNCHANGED <<rucbVars, ucbVars, alpha0, beta0, A_t>>

ts_choose_action ==
    /\ \E a1 \in Arms(Len(alpha)), a2 \in Arms(Len(alpha)) :
           \E a \in TSChooseAction(alpha, beta, <<a1, a2>>) :
               Returned("choose_action", <<<<a1, a2>>>>, <<a>>, NoErr)
    /\ UNCHANGED <<rucbVars, ucbVars, tsVars, A_t>>

ts_reset ==
    /\ alpha' = alpha0
    /\ beta' = beta0
    /\ Returned("reset", <<>>, NoRet, NoErr)
    /\ UNCHANGED <<rucbVars, ucbVars, alpha0, beta0, A_t>>

NextTS ==
    \/ ts_record_reward
    \/ ts_choose_action
    \/ ts_reset

SpecTS == InitTS /\ [][NextTS]_vars

-----------------------------------------------------------------------------
(* Construction: RUCB(Q) and HumanThompsonSampling(alpha0, beta0) called    *)
(* with any configuration, the policy that HumanThompsonSampling returned   *)
(* then recording rewards                                                   *)

\* BaseAlgPolicy.__init__(Q): self.Q = Q, then RUCB.reset with its assertion
\* on Q; when it fails there is no new policy and the old one stays
RUCBInit(M, Bs, Q) ==
    IF Q # 2
    THEN Outcome(M, Bs, NoRet, "AssertionError")
    ELSE Reset(M, Bs)

\* HumanThompsonSampling.__init__(alpha0, beta0): the two priors are stored
\* and copied into the posterior
TSInit(a0, b0) ==
    [alpha0 |-> a0, beta0 |-> b0, alpha |-> a0, beta |-> b0, err |-> NoErr]

\* the comparison-set sizes RUCB is constructed with
QInputs == 1 .. 3

\* prior vectors of different lengths, and with parameters that are not > 0
MalformedPriors ==
    {[a |-> <<1, 2, 3>>, b |-> <<4, 5>>],
     [a |-> <<1>>, b |-> <<1, 1>>],
     [a |-> <<0, 1>>, b |-> <<1, 1>>],
     [a |-> <<1, 1>>, b |-> <<1, -1>>]}

WellFormed(a0, b0) ==
    /\ Len(a0) = Len(b0)
    /\ \A k \in 1 .. Len(a0) : a0[k] > 0 /\ b0[k] > 0

ConstructRUCB ==
    /\ \E Q \in QInputs :
           /\ Apply(RUCBInit(W, B, Q))
           /\ Called("__init__", <<"RUCB", Q>>)
    /\ UNCHANGED <<ucbVars, tsVars, A_t>>

ConstructTS ==
    /\ \E p \in Priors \cup MalformedPriors :
           LET new == TSInit(p.a, p.b)
           IN /\ alpha0' = new.alpha0
              /\ beta0' = new.beta0
              /\ alpha' = new.alpha
              /\ beta' = new.beta
              /\ Returned("__init__", <<"HumanThompsonSampling", p.a, p.b>>,
                          NoRet, new.err)
    /\ UNCHANGED <<rucbVars, ucbVars, A_t>>

NextConstruct ==
    \/ ConstructRUCB
    \/ ConstructTS
    \/ ts_record_reward
    \/ ts_reset

SpecConstruct == InitTS /\ [][NextConstruct]_vars

-----------------------------------------------------------------------------
(* The three policies side by side, as the tests hold them: one RUCB, one   *)
(* HumanUCB and one HumanThompsonSampling built on some priors. One policy  *)
(* is worked on at a time, and it is reset before another one is taken up.  *)

\* the state RUCB.reset leaves at construction
RUCBFresh == W = WNone /\ B = {}
\* the state HumanUCB.reset leaves at construction
UCBFresh == action_to_count = <<>> /\ action_to_mean = <<>>
\* the state HumanThompsonSampling.reset leaves at construction
TSFresh == alpha = alpha0 /\ beta = beta0

SuiteRUCB == UCBFresh /\ TSFresh /\ NextCaller
SuiteUCB == RUCBFresh /\ TSFresh /\ NextUCB
SuiteTS == RUCBFresh /\ UCBFresh /\ NextTS

NextSuite ==
    \/ SuiteRUCB
    \/ SuiteUCB
    \/ SuiteTS

SpecSuite == InitTS /\ [][NextSuite]_vars

-----------------------------------------------------------------------------
(* Properties *)

LastOp(op) == call.op = op
Allocated == W # WNone

\* C1 as stated: in every state the simulation loop reaches, every diagonal
\* cell of the win matrix is zero.
C1_DiagonalZero ==
    Allocated => \A i \in Arms(Len(W)) : Cell(W, i, i) = 0

\* C1 amended: W is allocated with a zero diagonal, and a diagonal cell
\* W[i][i] changes only when the loop records the self-duel [i, i] that
\* choose_action_set returned, and then it grows by one.
C1_DiagonalOnlyBySelfDuel ==
    [][/\ (~Allocated /\ W' # WNone) =>
              \A i \in Arms(Len(W')) : Cell(W', i, i) = 0
       /\ (Allocated /\ W' # WNone) =>
              \A i \in Arms(Len(W)) :
                  Cell(W', i, i) # Cell(W, i, i) =>
                      /\ A_t = <<i, i>>
                      /\ call' = [op |-> "record_action", args |-> <<A_t, i>>]
                      /\ Cell(W', i, i) = Cell(W, i, i) + 1]_vars

\* a self-duel returned by choose_action_set has been recorded
C1_Witness ==
    /\ LastOp("record_action")
    /\ err = NoErr
    /\ call.args[1][1] = call.args[1][2]
    /\ Cell(W, call.args[2], call.args[2]) > 0

\* C2: choose_action_set(t, all_actions) returns a pair of two members of
\* all_actions, for lists of distinct actions that need not be 0..N-1.
C2_PairFromAllActions ==
    LastOp("choose_action_set") =>
        /\ err = NoErr
        /\ Len(ret) = 2
        /\ Elems(ret) \subseteq Elems(call.args[2])

\* the cell record_action(t, pair, chosen) is to add one to: row chosen,
\* column the other element of the pair (the second when the two are equal)
Loser(pair, chosen) ==
    IF pair[1] = pair[2] THEN pair[2]
    ELSE CHOOSE z \in Elems(pair) : z # chosen
\* W' is W with one more in the cell [chosen][loser] and B' is B
OneCellMore(chosen, loser) ==
    /\ B' = B
    /\ W' # WNone
    /\ Len(W') = Len(W)
    /\ \A i, j \in Arms(Len(W')) :
           Cell(W', i, j) =
               Cell(W, i, j) + (IF i = chosen /\ j = loser THEN 1 ELSE 0)
\* no cell of W is smaller after the step
NoCellSmaller ==
    /\ Len(W') = Len(W)
    /\ \A i, j \in Arms(Len(W)) : Cell(W', i, j) >= Cell(W, i, j)

\* C3 as stated: in every state, record_action(t, [x, y], chosen) with chosen
\* in {x, y} adds one to W[chosen][loser] (loser the other element, the
\* second when x = y) and leaves every other cell and B as they were; and no
\* step other than reset makes a cell smaller.
C3_RecordAsStated ==
    [][/\ (/\ call'.op = "record_action"
           /\ Len(call'.args[1]) = 2
           /\ call'.args[2] \in Elems(call'.args[1])) =>
              /\ err' = NoErr
              /\ OneCellMore(call'.args[2],
                             Loser(call'.args[1], call'.args[2]))
       /\ (Allocated /\ call'.op # "reset") => NoCellSmaller]_vars

\* C3 amended: as stated once choose_action_set has allocated W (since the
\* construction or the last reset); while W is unset, record_action raises
\* and leaves W unset and B as it was.
C3_RecordIncrementsOneCell ==
    [][/\ (/\ call'.op = "record_action"
           /\ Len(call'.args[1]) = 2
           /\ call'.args[2] \in Elems(call'.args[1])) =>
              IF Allocated
              THEN /\ err' = NoErr
                   /\ OneCellMore(call'.args[2],
                                  Loser(call'.args[1], call'.args[2]))
              ELSE err' # NoErr /\ W' = WNone /\ B' = B
       /\ (Allocated /\ call'.op # "reset") => NoCellSmaller]_vars

\* a pair of equal arms has been recorded on a cell that held a duel already
C3_Witness ==
    /\ LastOp("record_action")
    /\ err = NoErr
    /\ call.args[1][1] = call.args[1][2]
    /\ Cell(W, call.args[2], call.args[2]) = 2

\* C4: over the universe {0..N-1}, in any interleaving of choose_action_set
\* and record_action, choose_action_set never raises: it returns a pair.
C4_ChooseNeverRaises ==
    LastOp("choose_action_set") => err = NoErr /\ Len(ret) = 2

\* choose_action_set has returned from a state whose candidate set C is empty
C4_Witness ==
    /\ LastOp("choose_action_set")
    /\ err = NoErr
    /\ GetUAndC(W, call.args[1], call.args[2]).C = {}

\* C5: when will_definitely_self_duel(t, arms) returns True, every outcome of
\* choose_action_set(t, arms) in that state is a self-duel.
C5_SelfDuelPredicted ==
    (LastOp("will_definitely_self_duel") /\ err = NoErr /\ ret = <<TRUE>>) =>
        \A o \in ChooseActionSet(W, B, call.args[1], call.args[2]) :
            o.err = NoErr /\ o.ret[1] = o.ret[2]

\* the number of other arms that arm i has won more duels against than lost
Beats(i) ==
    Cardinality({j \in Arms(Len(W)) \ {i} : Cell(W, i, j) > Cell(W, j, i)})
\* the arms that beat the largest number of other arms
TopArms ==
    {i \in Arms(Len(W)) : \A j \in Arms(Len(W)) : Beats(j) <= Beats(i)}
Symmetric ==
    \A i, j \in Arms(Len(W)) : Cell(W, i, j) = Cell(W, j, i)
\* predict_winner has returned on the universe of W
Predicted ==
    /\ LastOp("predict_winner")
    /\ Allocated
    /\ call.args[1] = Universe(Len(W))

\* C6 as stated: predict_winner({0..N-1}) returns the arm that beats the
\* largest number of other arms when it is the only one, None when two or
\* more arms tie, and so None for every symmetric W.
C6_PredictWinnerAsStated ==
    Predicted =>
        /\ err = NoErr
        /\ ret = (IF Cardinality(TopArms) = 1
                  THEN <<CHOOSE i \in TopArms : TRUE>> ELSE NoRet)
        /\ Symmetric => ret = NoRet

\* C6 amended: as stated, but a symmetric W gives None only with N >= 2
\* arms (with one arm, arm 0 is the only top arm and is returned).
C6_PredictWinner ==
    Predicted =>
        /\ err = NoErr
        /\ ret = (IF Cardinality(TopArms) = 1
                  THEN <<CHOOSE i \in TopArms : TRUE>> ELSE NoRet)
        /\ (Symmetric /\ Len(W) >= 2) => ret = NoRet

\* predict_winner has returned None on a symmetric matrix with recorded
\* duels, on three arms
C6_Witness ==
    /\ Predicted
    /\ Len(W) = 3
    /\ Symmetric
    /\ Total(W) >= 2
    /\ ret = NoRet

\* C7: on a fresh policy and N >= 2 arms, the results of
\* choose_action_set(1, arms) are exactly the pairs of two different arms,
\* and the call leaves W all-zero and B empty.
C7_FirstChoice ==
    (W = WNone /\ B = {}) =>
        \A n \in 2 .. MaxN :
            LET outs == ChooseActionSet(W, B, 1, Universe(n))
            IN /\ {o.ret : o \in outs} =
                      {p \in Arms(n) \X Arms(n) : p[1] # p[2]}
               /\ \A o \in outs :
                      o.err = NoErr /\ o.W = Zeros(n) /\ o.B = {}

\* the first choose_action_set(1, [0, 1, 2]) has returned the pair [2, 0]
C7_Witness ==
    /\ LastOp("choose_action_set")
    /\ call.args = <<1, Universe(3)>>
    /\ W = Zeros(3)
    /\ B = {}
    /\ ret = <<2, 0>>

\* C8: for two different actions a1 and a2, HumanUCB.action_choice_prob(t,
\* a1, a2) is 1.0 exactly when choose_action(t, [a1, a2]) returns a1 and 0.0
\* exactly when it returns a2.
C8_ProbIsChoiceFrequency ==
    (LastOp("action_choice_prob") /\ call.args[2] # call.args[3]) =>
        LET chosen == UCBChooseAction(action_to_mean, action_to_count,
                                      call.args[1],
                                      <<call.args[2], call.args[3]>>)
        IN IF chosen = call.args[2] THEN ret = <<Scale>> ELSE ret = <<0>>

\* C9: record_action with a list of length other than 2 raises, and so does
\* predict_winner with an action set that is not {0..N-1} for the N of W;
\* neither changes W or B.
C9_MalformedCallsRaise ==
    [][/\ (call'.op = "record_action" /\ Len(call'.args[1]) # 2) =>
              err' # NoErr /\ W' = W /\ B' = B
       /\ (/\ call'.op = "predict_winner"
           /\ \/ ~Allocated
              \/ Len(call'.args[1]) # Len(W)
              \/ Elems(call'.args[1]) # Arms(Len(W))) =>
              err' # NoErr /\ W' = W /\ B' = B]_vars

\* record_action has raised on a list of three arms, W holding duels
C9_Witness ==
    /\ LastOp("record_action")
    /\ Len(call.args[1]) = 3
    /\ err = "AssertionError"
    /\ Allocated
    /\ Total(W) > 0

\* C10: HumanThompsonSampling.record_reward(t, a, r) adds one to alpha[a]
\* for r = 1.0 and to beta[a] for r = 0.0, changing no other entry; for any
\* other reward it raises and leaves alpha and beta as they were.
C10_RecordReward ==
    [][(call'.op = "record_reward" /\ call'.args[1] \in Arms(Len(alpha))) =>
           LET a == call'.args[1] + 1
               r == call'.args[2]
           IN /\ r = Scale =>
                     /\ err' = NoErr
                     /\ alpha' = [alpha EXCEPT ![a] = @ + 1]
                     /\ beta' = beta
              /\ r = 0 =>
                     /\ err' = NoErr
                     /\ alpha' = alpha
                     /\ beta' = [beta EXCEPT ![a] = @ + 1]
              /\ r \notin {0, Scale} =>
                     /\ err' # NoErr
                     /\ alpha' = alpha
                     /\ beta' = beta]_vars

\* a reward of 0.5 has been refused after rewards were recorded
C10_Witness ==
    /\ LastOp("record_reward")
    /\ call.args[2] = Half
    /\ err = "ValueError"
    /\ alpha # alpha0
    /\ beta # beta0

\* C11: reset, after any sequence of operations, leaves the policy it is
\* called on as its construction left it: W unset and B empty for RUCB, both
\* mappings empty for HumanUCB, alpha and beta equal to the priors for
\* HumanThompsonSampling; and no step changes the stored priors.
C11_ResetRestoresFresh ==
    [][/\ call'.op = "reset" => (RUCBFresh' /\ UCBFresh' /\ TSFresh')
       /\ alpha0' = alpha0
       /\ beta0' = beta0]_vars

\* reset has been called on the policy built on the priors [1, 2, 3] and
\* [4, 5, 6] of the tests
C11_Witness ==
    /\ LastOp("reset")
    /\ alpha0 = <<1, 2, 3>>
    /\ beta0 = <<4, 5, 6>>
    /\ RUCBFresh /\ UCBFresh /\ TSFresh

\* C12: on an allocated W, will_definitely_self_duel(t, arms) and
\* predict_winner(arms) leave W and B as they were, so that choose_action_set
\* has the same possible results after the query as before it.
C12_QueriesReadOnly ==
    [][(/\ call'.op \in {"will_definitely_self_duel", "predict_winner"}
        /\ Allocated) =>
           /\ W' = W
           /\ B' = B
           /\ \A time \in Times :
                  ChooseActionSet(W', B', time, Universe(Len(W)))
                      = ChooseActionSet(W, B, time, Universe(Len(W)))]_vars

\* will_definitely_self_duel has returned in a state where the champion
\* memory holds an arm that is no candidate any more
C12_Witness ==
    /\ LastOp("will_definitely_self_duel")
    /\ err = NoErr
    /\ B # {}
    /\ B \cap GetUAndC(W, call.args[1], call.args[2]).C = {}

\* C13: constructing RUCB with Q other than 2 fails, and so does constructing
\* HumanThompsonSampling with priors of different lengths or with a prior
\* parameter that is not positive.
C13_MalformedConfigRejected ==
    /\ (LastOp("__init__") /\ Len(call.args) = 2 /\ call.args[2] # 2) =>
           err # NoErr
    /\ (/\ LastOp("__init__")
        /\ Len(call.args) = 3
        /\ ~WellFormed(call.args[2], call.args[3])) =>
           err # NoErr

\* the U of the round that choose_action_set has just played (the call
\* leaves an allocated W as it was)
RoundU == GetUAndC(W, call.args[1], call.args[2]).U
\* the arms other than a_c whose bound against a_c reaches U[a_c][a_c] = 0.5
Rivals(a_c) == {j \in Arms(Len(W)) \ {a_c} : RoundU[j][a_c] >= Half}

\* C14: choose_action_set returns the champion as its own challenger exactly
\* when every other arm j has U[j][a_c] < 0.5; when some other arm has
\* U[j][a_c] >= 0.5, the challenger is another arm and maximises U[j][a_c].
C14_ChallengerTieBreak ==
    (LastOp("choose_action_set") /\ err = NoErr) =>
        LET a_c == ret[1]
            d   == ret[2]
        IN /\ RoundU[a_c][a_c] = Half
           /\ d = a_c <=> Rivals(a_c) = {}
           /\ Rivals(a_c) # {} =>
                  /\ d # a_c
                  /\ \A j \in Arms(Len(W)) : RoundU[j][a_c] <= RoundU[d][a_c]

\* choose_action_set has returned another arm than the champion as the
\* challenger, the two tied at exactly 0.5 in the champion's column
C14_Witness ==
    /\ LastOp("choose_action_set")
    /\ err = NoErr
    /\ ret[1] # ret[2]
    /\ RoundU[ret[2]][ret[1]] = Half
    /\ \A j \in Arms(Len(W)) : RoundU[j][ret[1]] <= Half

\* C15: B never holds more than one arm; after choose_action_set, with C the
\* candidate set of the round (the drawn arm alone when _get_U_and_C found
\* none), B is a subset of C and is C exactly when C is one arm; and with two
\* or more candidates B is what it was, less the arms that are not in C.
C15_ChampionMemory ==
    [][/\ Cardinality(B') <= 1
       /\ (call'.op = "choose_action_set" /\ err' = NoErr) =>
              LET found == GetUAndC(W', call'.args[1], call'.args[2]).C
                  C     == IF found = {} THEN {ret'[1]} ELSE found
              IN /\ B' \subseteq C
                 /\ B' = C <=> Cardinality(C) = 1
                 /\ Cardinality(C) >= 2 =>
                        /\ B' = B \cap C
                        /\ ret'[1] \in B' => ret'[1] \in B]_vars

\* choose_action_set has returned from a round without candidates, and the
\* arm drawn as champion is the champion memory
C15_Witness ==
    /\ LastOp("choose_action_set")
    /\ err = NoErr
    /\ Allocated
    /\ Total(W) > 0
    /\ GetUAndC(W, call.args[1], call.args[2]).C = {}
    /\ B = {ret[1]}

\* C16: with N >= 2 arms, will_definitely_self_duel returns True exactly when
\* the C of _get_U_and_C is one arm, so False when C is empty and when it
\* holds two or more arms; and U[c][j] + U[j][c] >= 1 for any two arms.
C16_SelfDuelIffOneCandidate ==
    (LastOp("will_definitely_self_duel") /\ err = NoErr /\ Len(W) >= 2) =>
        /\ ret = <<Cardinality(
                      GetUAndC(W, call.args[1], call.args[2]).C) = 1>>
        /\ \A c, j \in Arms(Len(W)) :
               c # j => RoundU[c][j] + RoundU[j][c] >= Scale

\* will_definitely_self_duel has returned False on three arms of which none
\* is a candidate
C16_Witness ==
    /\ LastOp("will_definitely_self_duel")
    /\ err = NoErr
    /\ Len(W) = 3
    /\ GetUAndC(W, call.args[1], call.args[2]).C = {}
    /\ ret = <<FALSE>>

\* arm c has won more duels against every other arm than it has lost
Condorcet(c) ==
    \A j \in Arms(Len(W)) \ {c} : Cell(W, c, j) > Cell(W, j, c)

\* C17: with N >= 2 arms, when some arm c has W[c][j] > W[j][c] for every
\* other arm j, predict_winner({0..N-1}) returns c.
C17_CondorcetWinnerPredicted ==
    (Predicted /\ Len(W) >= 2) =>
        \A c \in Arms(Len(W)) :
            Condorcet(c) => (err = NoErr /\ ret = <<c>>)

\* predict_winner has returned arm 2, which has beaten arms 0 and 1
C17_Witness ==
    /\ Predicted
    /\ Len(W) = 3
    /\ Condorcet(2)
    /\ err = NoErr
    /\ ret = <<2>>

=============================================================================
